---- MODULE Spec2Model ----
(***************************************************************************)
(* dolospy: rolling hash (hashing.cpp), winnowing filter (hashing.h) and   *)
(* the fingerprint index (index.cpp) of AletheiaJSVersionDetection.        *)
(***************************************************************************)
EXTENDS Integers, Sequences, FiniteSets, Bags, TLC

VARIABLES
    identifiers,  \* Index::identifiers : name -> id
    names,        \* Index::names       : id -> name
    groups,       \* Index::groups      : id -> set of hashes (forward sets)
    index,        \* Index::index       : hash -> set of ids (inverted map)
    k,            \* Index::k
    w,            \* Index::w, resp. the parameter w of winnowFilter
    lastOp,       \* the member function or constructor called last
    ret,          \* what that call returned (or the exception it raised)
    origin,       \* the Index object whose serialize() returned that text
    snapshot,     \* the JSON text last returned by serialize()
    added,        \* history: the names passed to addToGroup
    onlyAdds,     \* history: no non-const call but addToGroup has been made
    adds,         \* history: number of addToGroup calls made
    order,        \* history: the distinct names added, by first addToGroup
    hashes,       \* winnowFilter: the range [begin, end) it iterates
    it,           \* winnowFilter: how many elements the loop has consumed
    h,            \* winnowFilter: the window buffer
    r,            \* winnowFilter: write cursor
    min,          \* winnowFilter: position of the selected minimum
    filtered,     \* winnowFilter: the output vector
    rolling,      \* a RollingHash object: k, max_base, hash, i, memory
    feed,         \* the token codes passed to it, call after call
    out           \* the values its calls returned, oldest first

idxVars == <<identifiers, names, groups, index, k, w, lastOp, ret, origin, snapshot, added, onlyAdds, adds, order>>
winVars == <<hashes, it, h, r, min, filtered>>
rhVars == <<rolling, feed, out>>
vars == <<identifiers, names, groups, index, k, w, lastOp, ret, origin, snapshot, added, onlyAdds, adds, order,
          hashes, it, h, r, min, filtered, rolling, feed, out>>

----------------------------------------------------------------------------
(* Bounds of the model *)

MaxK == 2
MaxW == 2
MaxWinnowW == 3
MaxTokens == 2
MaxAdds == 2
MaxHashVal == 2
MaxHashes == 5

(* Program constants *)

mod == 33554393
base == 4194301
\* std::numeric_limits<uint64_t>::max(): the top of the value domain. The
\* filter only compares hashes, so the largest integer TLC represents
\* stands for 2^64 - 1; every hash is below mod.
UINT64_MAX == 2147483647

----------------------------------------------------------------------------
(* Small helpers for std containers *)

Range(f) == {f[x] : x \in DOMAIN f}

\* m[key] = v of a std::unordered_map
Put(m, key, v) == [x \in (DOMAIN m) \cup {key} |-> IF x = key THEN v ELSE m[x]]

\* m[key] read through operator[]: value-initialised when absent
GetOr(m, key, dflt) == IF key \in DOMAIN m THEN m[key] ELSE dflt

\* sequences over S of length 0..n
SeqsUpTo(S, n) == UNION {[1..l -> S] : l \in 0..n}

----------------------------------------------------------------------------
(* hashing.h / hashing.cpp *)

\* a * b % m for a, b < m on uint64_t. The product does not fit TLC's 32-bit
\* integers, so it is accumulated bit by bit; the value is the same.
RECURSIVE MulMod(_, _, _)
MulMod(a, b, m) ==
    IF b = 0 THEN 0
    ELSE LET half == MulMod(a, b \div 2, m)
         IN  (2 * half + (IF b % 2 = 1 THEN a % m ELSE 0)) % m

RECURSIVE modPowLoop(_, _, _, _)
modPowLoop(y, b, e, m) ==
    IF e > 1
    THEN modPowLoop(IF e % 2 = 1 THEN MulMod(b, y, m) ELSE y, MulMod(b, b, m), e \div 2, m)
    ELSE MulMod(b, y, m)

modPow(bs, exp, m) == modPowLoop(1, bs, exp, m)

\* RollingHash::RollingHash(k)
RollingHashNew(kk) ==
    [k |-> kk, max_base |-> mod - modPow(base, kk, mod), hash |-> 0, i |-> 0,
     memory |-> [j \in 0..(kk - 1) |-> 0]]

\* RollingHashPush that never takes the oldest token out again
RollingHashPushNoDrop(rh, tok) ==
    LET hash1 == (MulMod(base, rh.hash, mod) + tok) % mod
    IN  [rh EXCEPT !.hash = hash1, !.memory[rh.i] = tok, !.i = (rh.i + 1) % rh.k]

\* RollingHashPush taking its token as a uint8_t
RollingHashPushByteToken(rh, tok) ==
    LET hash1 == (MulMod(base, rh.hash, mod) + (tok % 256)
                    + MulMod(rh.max_base, rh.memory[rh.i] % 256, mod)) % mod
    IN  [rh EXCEPT !.hash = hash1, !.memory[rh.i] = tok % 256, !.i = (rh.i + 1) % rh.k]

\* RollingHashPush without the final reduction
RollingHashPushUnreduced(rh, tok) ==
    LET hash1 == MulMod(base, rh.hash, mod) + tok + MulMod(rh.max_base, rh.memory[rh.i], mod)
    IN  [rh EXCEPT !.hash = hash1, !.memory[rh.i] = tok, !.i = (rh.i + 1) % rh.k]

\* RollingHash::operator()(tok): the object after the call; .hash is returned
RollingHashPush(rh, tok) ==
    LET hash1 == (MulMod(base, rh.hash, mod) + tok + MulMod(rh.max_base, rh.memory[rh.i], mod)) % mod
    IN  [rh EXCEPT !.hash = hash1, !.memory[rh.i] = tok, !.i = (rh.i + 1) % rh.k]

\* The values *it yields while a RollingHashIterator(k, tokens.begin()) is
\* advanced to tokens.end(), dereferenced once per position.
RECURSIVE RollingHashRun(_, _, _)
RollingHashRun(rh, tokens, n) ==
    IF n > Len(tokens) THEN <<>>
    ELSE LET rh1 == RollingHashPush(rh, tokens[n])
         IN  <<rh1.hash>> \o RollingHashRun(rh1, tokens, n + 1)

RollingHashIterator(kk, tokens) == RollingHashRun(RollingHashNew(kk), tokens, 1)

\* std::ranges::min_element(h): the first position holding the smallest value
min_element(hh) ==
    CHOOSE j \in DOMAIN hh :
        /\ \A l \in DOMAIN hh : hh[j] <= hh[l]
        /\ \A l \in DOMAIN hh : l < j => hh[l] > hh[j]

\* winnowFilter: the locals before the loop
winnowStart(ww) ==
    [h |-> [j \in 0..(ww - 1) |-> UINT64_MAX], r |-> 0, min |-> 0, filtered |-> <<>>]

\* winnowIter with the incremental branch moving min without recording the
\* value it moved to
winnowIterSilentMove(st, ww, v) ==
    LET r1 == (st.r + 1) % ww
        h1 == [st.h EXCEPT ![r1] = v]
    IN  IF st.min = r1
        THEN LET m == min_element(h1)
             IN  [h |-> h1, r |-> r1, min |-> m, filtered |-> Append(st.filtered, h1[m])]
        ELSE IF h1[st.min] < h1[r1]
             THEN [h |-> h1, r |-> r1, min |-> r1, filtered |-> st.filtered]
             ELSE [h |-> h1, r |-> r1, min |-> st.min, filtered |-> st.filtered]

\* winnowFilter: one iteration of the loop body on the value v = *it
winnowIter(st, ww, v) ==
    LET r1 == (st.r + 1) % ww
        h1 == [st.h EXCEPT ![r1] = v]
    IN  IF st.min = r1
        THEN LET m == min_element(h1)
             IN  [h |-> h1, r |-> r1, min |-> m, filtered |-> Append(st.filtered, h1[m])]
        ELSE IF h1[st.min] < h1[r1]
             THEN [h |-> h1, r |-> r1, min |-> r1, filtered |-> Append(st.filtered, h1[r1])]
             ELSE [h |-> h1, r |-> r1, min |-> st.min, filtered |-> st.filtered]

RECURSIVE winnowRun(_, _, _, _)
winnowRun(st, ww, in, n) ==
    IF n > Len(in) THEN st ELSE winnowRun(winnowIter(st, ww, in[n]), ww, in, n + 1)

\* winnowFilter(w, begin, end, sizeEstimation): the vector returned. The size
\* estimation only reserves capacity.
winnowFilter(ww, in) == winnowRun(winnowStart(ww), ww, in, 1).filtered

----------------------------------------------------------------------------
(* index.cpp: the member functions of Index on an object S *)

\* document names and token codes to draw from
Names == {"a", "b"}
Tokens == {1, 2}
TokenSeqs == SeqsUpTo(Tokens, MaxTokens)

Self == [identifiers |-> identifiers, names |-> names, groups |-> groups,
         index |-> index, k |-> k, w |-> w]

\* Index(k, w)
IndexNew(kk, ww) == [identifiers |-> <<>>, names |-> <<>>, groups |-> <<>>,
                     index |-> <<>>, k |-> kk, w |-> ww]

\* static_cast<uint16_t> and static_cast<uint32_t> of a non-negative value
CastU16(n) == n % 65536
CastU32(n) == (n % 65536) + ((n \div 65536) % 65536) * 65536

\* winnowFilter(w, RollingHashIterator(k, tokens.begin()), RollingHashIterator(k, tokens.end()))
fingerprintsOf(kk, ww, tokens) == winnowFilter(ww, RollingHashIterator(kk, tokens))

\* the same, tabulated once for the parameters and inputs of the model
FingerprintTable ==
    [kk \in 1..MaxK, ww \in 1..MaxW, tokens \in TokenSeqs |-> fingerprintsOf(kk, ww, tokens)]

fingerprints(S, tokens) ==
    IF S.k \in 1..MaxK /\ S.w \in 1..MaxW /\ tokens \in TokenSeqs
    THEN FingerprintTable[S.k, S.w, tokens]
    ELSE fingerprintsOf(S.k, S.w, tokens)

\* insertHash without the insertion into groups
insertHashIndexOnly(S, hash, identifier) ==
    [S EXCEPT !.index = Put(S.index, hash, GetOr(S.index, hash, {}) \cup {identifier})]

\* index[hash].insert(identifier); groups[identifier].insert(hash);
insertHash(S, hash, identifier) ==
    [S EXCEPT !.index = Put(S.index, hash, GetOr(S.index, hash, {}) \cup {identifier}),
              !.groups = Put(S.groups, identifier, GetOr(S.groups, identifier, {}) \cup {hash})]

RECURSIVE insertHashes(_, _, _, _)
insertHashes(S, hs, identifier, n) ==
    IF n > Len(hs) THEN S
    ELSE insertHashes(insertHash(S, hs[n], identifier), hs, identifier, n + 1)

\* resolveName without the lookup: every call takes the next id
resolveNameAlwaysNew(S, groupName) ==
    LET identifier == CastU16(Cardinality(DOMAIN S.identifiers))
    IN  [S |-> [S EXCEPT !.identifiers = Put(S.identifiers, groupName, identifier),
                         !.names = Put(S.names, identifier, groupName)],
         identifier |-> identifier]

\* addToGroup, lines 15-23: find the name or give it the next id
resolveName(S, groupName) ==
    IF groupName \in DOMAIN S.identifiers
    THEN [S |-> S, identifier |-> S.identifiers[groupName]]
    ELSE LET identifier == CastU16(Cardinality(DOMAIN S.identifiers))
         IN  [S |-> [S EXCEPT !.identifiers = Put(S.identifiers, groupName, identifier),
                              !.names = Put(S.names, identifier, groupName)],
              identifier |-> identifier]

\* addToGroup starting the document's forward set afresh
addToGroupReplacing(S, groupName, tokens) ==
    LET res == resolveName(S, groupName)
        cleared == [res.S EXCEPT !.groups = Put(res.S.groups, res.identifier, {})]
    IN  insertHashes(cleared, fingerprints(res.S, tokens), res.identifier, 1)

\* Index::addToGroup(groupName, sourceCode), tokens = tokenize(sourceCode)
addToGroup(S, groupName, tokens) ==
    LET res == resolveName(S, groupName)
    IN  insertHashes(res.S, fingerprints(res.S, tokens), res.identifier, 1)

\* Index::addToGroup(groupName, sourceCode) left by an exception out of
\* tokenize(sourceCode) at line 25: lines 15-23 have run, the loop has not
addToGroupThrows(S, groupName) == resolveName(S, groupName).S

\* identifiers[a], groups[x]: operator[] inserts a value-initialised entry
\* for a key that is absent
subscript(m, key, dflt) == IF key \in DOMAIN m THEN m ELSE Put(m, key, dflt)

\* getPair with rightTotal taken from A as well
getPairRightFromLeft(S, a, b) ==
    LET ids1 == subscript(S.identifiers, a, 0)
        x    == ids1[a]
        ids2 == subscript(ids1, b, 0)
        y    == ids2[b]
        g1   == subscript(S.groups, x, {})
        A    == g1[x]
        g2   == subscript(g1, y, {})
        B    == g2[y]
    IN  [S   |-> [S EXCEPT !.identifiers = ids2, !.groups = g2],
         ret |-> [left |-> a, right |-> b, covered |-> Cardinality(A \cap B),
                  leftTotal |-> Cardinality(A), rightTotal |-> Cardinality(A)]]

\* Index::getPair(a, b): the object after the call and the Pair returned
getPair(S, a, b) ==
    LET ids1 == subscript(S.identifiers, a, 0)
        x    == ids1[a]
        ids2 == subscript(ids1, b, 0)
        y    == ids2[b]
        g1   == subscript(S.groups, x, {})
        A    == g1[x]
        g2   == subscript(g1, y, {})
        B    == g2[y]
    IN  [S   |-> [S EXCEPT !.identifiers = ids2, !.groups = g2],
         ret |-> [left |-> a, right |-> b, covered |-> Cardinality(A \cap B),
                  leftTotal |-> Cardinality(A), rightTotal |-> Cardinality(B)]]

\* matchTokens: the keys of sharedHashes after both loops
sharedKeys(S, fps) ==
    Range(S.identifiers) \cup
    UNION {S.index[fps[j]] : j \in {l \in 1..Len(fps) : fps[l] \in DOMAIN S.index}}

\* sharedCount counting each shared value once
sharedCountDistinct(S, fps, identifier) ==
    Cardinality({fps[j] : j \in {l \in 1..Len(fps) :
                     fps[l] \in DOMAIN S.index /\ identifier \in S.index[fps[l]]}})

\* matchTokens: sharedHashes[identifier] after both loops
sharedCount(S, fps, identifier) ==
    Cardinality({j \in 1..Len(fps) : fps[j] \in DOMAIN S.index /\ identifier \in S.index[fps[j]]})

\* matchTokens: the Pair emplaced for one entry of sharedHashes
matchPair(S, fps, identifier) ==
    [left |-> "external", right |-> S.names[identifier],
     covered |-> sharedCount(S, fps, identifier),
     leftTotal |-> Len(fps),
     rightTotal |-> IF identifier \in DOMAIN S.groups THEN Cardinality(S.groups[identifier]) ELSE 0]

\* Index::matchTokens(tokens): the vector returned, as the bag of its
\* elements (sharedHashes is iterated in an unspecified order), or the
\* exception of names.at(identifier)
matchTokens(S, tokens) ==
    LET fps  == fingerprints(S, tokens)
        keys == sharedKeys(S, fps)
    IN  IF \E identifier \in keys : identifier \notin DOMAIN S.names
        THEN [kind |-> "throw", val |-> "std::out_of_range"]
        ELSE LET ps == {matchPair(S, fps, identifier) : identifier \in keys}
             IN  [kind |-> "pairs",
                  val |-> [p \in ps |-> Cardinality({identifier \in keys : matchPair(S, fps, identifier) = p})]]

----------------------------------------------------------------------------
(* index.cpp: serialize() and Index(serialization) over boost::json *)

\* A JSON text, by its syntax tree
JNum(n) == [t |-> "number", v |-> n]
JStr(str) == [t |-> "string", v |-> str]
JArr(a) == [t |-> "array", v |-> a]
JObj(o) == [t |-> "object", v |-> o]
JNull == [t |-> "null", v |-> <<>>]

\* std::set iteration: ascending
RECURSIVE Ascending(_)
Ascending(S) ==
    IF S = {} THEN <<>>
    ELSE LET m == CHOOSE x \in S : \A y \in S : x <= y
         IN  <<m>> \o Ascending(S \ {m})

\* every order in which an unordered_map may iterate its keys
Orders(S) == {f \in [1..Cardinality(S) -> S] : Range(f) = S}

\* one arbitrary such order, for a map whose readers insert into sets only
RECURSIVE SomeOrder(_)
SomeOrder(S) ==
    IF S = {} THEN <<>>
    ELSE LET x == CHOOSE y \in S : TRUE
         IN  <<x>> \o SomeOrder(S \ {x})

\* serialize writing only the names of documents that have fingerprints
serializeWithHashes(S, nameOrder, hashOrder) ==
    LET kept         == SelectSeq(nameOrder, LAMBDA n : S.identifiers[n] \in DOMAIN S.groups)
        sIdentifiers == [j \in 1..Len(kept) |->
                            JArr(<<JStr(kept[j]), JNum(S.identifiers[kept[j]])>>)]
        sIds(hash)   == LET ids == Ascending(S.index[hash])
                        IN  [j \in 1..Len(ids) |-> JNum(ids[j])]
        sIndex       == [j \in 1..Len(hashOrder) |->
                            JArr(<<JNum(hashOrder[j]), JArr(sIds(hashOrder[j]))>>)]
    IN  JObj([k |-> JNum(S.k), w |-> JNum(S.w), index |-> JArr(sIndex),
              identifiers |-> JArr(sIdentifiers)])

\* Index::serialize() when identifiers iterates in nameOrder and index in
\* hashOrder: the text json::serialize(s) returns
serialize(S, nameOrder, hashOrder) ==
    LET sIdentifiers == [j \in 1..Len(nameOrder) |->
                            JArr(<<JStr(nameOrder[j]), JNum(S.identifiers[nameOrder[j]])>>)]
        sIds(hash)   == LET ids == Ascending(S.index[hash])
                        IN  [j \in 1..Len(ids) |-> JNum(ids[j])]
        sIndex       == [j \in 1..Len(hashOrder) |->
                            JArr(<<JNum(hashOrder[j]), JArr(sIds(hashOrder[j]))>>)]
    IN  JObj([k |-> JNum(S.k), w |-> JNum(S.w), index |-> JArr(sIndex),
              identifiers |-> JArr(sIdentifiers)])

\* json::parse gives a number that fits kind int64 (below 2^63), and
\* value::as_int64() throws on every other kind
is_int64(j) == j.t = "number" /\ (j.v < 0 \/ ((j.v \div 65536) \div 65536) \div 65536 < 32768)

\* accepted taking a null "identifiers" for an empty list
acceptedNullIdentifiers(text) ==
    /\ text.t = "object"
    /\ {"k", "w", "identifiers", "index"} \subseteq DOMAIN text.v
    /\ is_int64(text.v.k)
    /\ is_int64(text.v.w)
    /\ text.v.identifiers.t \in {"array", "null"}
    /\ \A j \in DOMAIN text.v.identifiers.v :
          LET tmp == text.v.identifiers.v[j]
          IN  /\ tmp.t = "array" /\ Len(tmp.v) >= 2
              /\ tmp.v[1].t = "string" /\ is_int64(tmp.v[2])
    /\ text.v.index.t = "array"
    /\ \A j \in DOMAIN text.v.index.v :
          LET tmp == text.v.index.v[j]
          IN  /\ tmp.t = "array" /\ Len(tmp.v) >= 2
              /\ is_int64(tmp.v[1]) /\ tmp.v[2].t = "array"
              /\ \A l \in DOMAIN tmp.v[2].v : is_int64(tmp.v[2].v[l])

\* no accessor of Index(serialization) throws on this text
accepted(text) ==
    /\ text.t = "object"
    /\ {"k", "w", "identifiers", "index"} \subseteq DOMAIN text.v
    /\ is_int64(text.v.k)
    /\ is_int64(text.v.w)
    /\ text.v.identifiers.t = "array"
    /\ \A j \in DOMAIN text.v.identifiers.v :
          LET tmp == text.v.identifiers.v[j]
          IN  /\ tmp.t = "array" /\ Len(tmp.v) >= 2
              /\ tmp.v[1].t = "string" /\ is_int64(tmp.v[2])
    /\ text.v.index.t = "array"
    /\ \A j \in DOMAIN text.v.index.v :
          LET tmp == text.v.index.v[j]
          IN  /\ tmp.t = "array" /\ Len(tmp.v) >= 2
              /\ is_int64(tmp.v[1]) /\ tmp.v[2].t = "array"
              /\ \A l \in DOMAIN tmp.v[2].v : is_int64(tmp.v[2].v[l])

\* Index(serialization), lines 126-132: the loop over s.at("identifiers")
RECURSIVE loadIdentifiers(_, _, _)
loadIdentifiers(S, sIdentifiers, n) ==
    IF n > Len(sIdentifiers) THEN S
    ELSE LET arr  == sIdentifiers[n].v
             name == arr[1].v
             id   == CastU16(arr[2].v)
         IN  loadIdentifiers([S EXCEPT !.identifiers = Put(S.identifiers, name, id),
                                       !.names = Put(S.names, id, name)],
                             sIdentifiers, n + 1)

\* lines 137-141: the loop over one entry's ids
RECURSIVE loadIds(_, _, _, _)
loadIds(S, hash, sIds, n) ==
    IF n > Len(sIds) THEN S
    ELSE loadIds(insertHash(S, hash, CastU16(sIds[n].v)), hash, sIds, n + 1)

\* lines 134-142: the loop over s.at("index")
RECURSIVE loadIndex(_, _, _)
loadIndex(S, sIndex, n) ==
    IF n > Len(sIndex) THEN S
    ELSE LET arr == sIndex[n].v
         IN  loadIndex(loadIds(S, CastU32(arr[1].v), arr[2].v, 1), sIndex, n + 1)

\* Index::Index(serialization) on an accepted text: the object constructed
IndexLoad(text) ==
    LET S0 == IndexNew(CastU16(text.v.k.v), CastU16(text.v.w.v))
        S1 == loadIdentifiers(S0, text.v.identifiers.v, 1)
    IN  loadIndex(S1, text.v.index.v, 1)

----------------------------------------------------------------------------
(* One Index object and the calls made on it *)

Void == [kind |-> "void", val |-> <<>>]
NoText == [t |-> "none", v |-> <<>>]
NoOrigin == [S |-> IndexNew(0, 0), added |-> {}, onlyAdds |-> TRUE, order |-> <<>>]

NoWinnow ==
    /\ hashes = <<>> /\ it = 0 /\ h = <<>> /\ r = 0 /\ min = 0 /\ filtered = <<>>

NoRolling ==
    /\ rolling = <<>> /\ feed = <<>> /\ out = <<>>

Init ==
    /\ k \in 1..MaxK
    /\ w \in 1..MaxW
    /\ identifiers = <<>> /\ names = <<>> /\ groups = <<>> /\ index = <<>>
    /\ lastOp = "Index(k, w)"
    /\ ret = Void
    /\ origin = NoOrigin
    /\ snapshot = NoText
    /\ added = {}
    /\ onlyAdds = TRUE
    /\ adds = 0
    /\ order = <<>>
    /\ NoWinnow
    /\ NoRolling

Becomes(S) ==
    /\ identifiers' = S.identifiers
    /\ names' = S.names
    /\ groups' = S.groups
    /\ index' = S.index
    /\ k' = S.k
    /\ w' = S.w

AddToGroup(groupName, tokens) ==
    /\ adds < MaxAdds
    /\ Becomes(addToGroup(Self, groupName, tokens))
    /\ lastOp' = "addToGroup"
    /\ ret' = Void
    /\ added' = added \cup {groupName}
    /\ adds' = adds + 1
    /\ order' = IF groupName \in Range(order) THEN order ELSE Append(order, groupName)
    /\ UNCHANGED <<origin, snapshot, onlyAdds>>
    /\ UNCHANGED <<winVars, rhVars>>

\* tokenize has no handler of its own: what its std::vector throws when
\* it cannot grow leaves addToGroup
AddToGroupThrows(groupName) ==
    /\ adds < MaxAdds
    /\ Becomes(addToGroupThrows(Self, groupName))
    /\ lastOp' = "addToGroup"
    /\ ret' = [kind |-> "throw", val |-> "std::bad_alloc"]
    /\ added' = added \cup {groupName}
    /\ adds' = adds + 1
    /\ order' = IF groupName \in Range(order) THEN order ELSE Append(order, groupName)
    /\ UNCHANGED <<origin, snapshot, onlyAdds>>
    /\ UNCHANGED <<winVars, rhVars>>

GetPair(a, b) ==
    /\ LET res == getPair(Self, a, b)
       IN  /\ Becomes(res.S)
           /\ ret' = [kind |-> "Pair", val |-> res.ret]
    /\ lastOp' = "getPair"
    /\ onlyAdds' = FALSE
    /\ UNCHANGED <<origin, snapshot, added, adds, order>>
    /\ UNCHANGED <<winVars, rhVars>>

MatchTokens(tokens) ==
    /\ lastOp' = "matchTokens"
    /\ ret' = matchTokens(Self, tokens)
    /\ UNCHANGED <<identifiers, names, groups, index, k, w>>
    /\ UNCHANGED <<origin, snapshot, added, onlyAdds, adds, order>>
    /\ UNCHANGED <<winVars, rhVars>>

Serialize ==
    /\ \E nameOrder \in Orders(DOMAIN identifiers) :
          /\ snapshot' = serialize(Self, nameOrder, SomeOrder(DOMAIN index))
          /\ ret' = [kind |-> "string", val |-> snapshot']
    /\ lastOp' = "serialize"
    /\ origin' = [S |-> Self, added |-> added, onlyAdds |-> onlyAdds, order |-> order]
    /\ UNCHANGED <<identifiers, names, groups, index, k, w>>
    /\ UNCHANGED <<added, onlyAdds, adds, order>>
    /\ UNCHANGED <<winVars, rhVars>>

\* Index::deserialize(snapshot): the object in hand becomes the one built
Deserialize ==
    /\ snapshot.t # "none"
    /\ IF accepted(snapshot)
       THEN /\ Becomes(IndexLoad(snapshot))
            /\ ret' = Void
            /\ added' = origin.added
            /\ onlyAdds' = origin.onlyAdds
            /\ order' = origin.order
       ELSE /\ ret' = [kind |-> "throw", val |-> "boost::system::system_error"]
            /\ UNCHANGED <<identifiers, names, groups, index, k, w, added, onlyAdds, order>>
    /\ lastOp' = "Index(serialization)"
    /\ UNCHANGED <<origin, snapshot, adds>>
    /\ UNCHANGED <<winVars, rhVars>>

Next ==
    \/ \E groupName \in Names, tokens \in TokenSeqs : AddToGroup(groupName, tokens)
    \/ \E groupName \in Names : AddToGroupThrows(groupName)
    \/ \E a \in Names, b \in Names : GetPair(a, b)
    \/ \E tokens \in TokenSeqs : MatchTokens(tokens)
    \/ Serialize
    \/ Deserialize

Spec == Init /\ [][Next]_vars

\* the calls on one object, without constructing another from a snapshot
NextCalls ==
    \/ \E groupName \in Names, tokens \in TokenSeqs : AddToGroup(groupName, tokens)
    \/ \E a \in Names, b \in Names : GetPair(a, b)
    \/ \E tokens \in TokenSeqs : MatchTokens(tokens)
    \/ Serialize

SpecCalls == Init /\ [][NextCalls]_vars

\* addToGroup calls, snapshots and the objects built from them
NextSnapshot ==
    \/ \E groupName \in Names, tokens \in TokenSeqs : AddToGroup(groupName, tokens)
    \/ Serialize
    \/ Deserialize

\* snapshots written by hand: a hash listed twice, ids that have no name, an
\* empty id list, two names for one id, an id beyond 16 bits
NamePair(n, d) == JArr(<<JStr(n), JNum(d)>>)
Entry(hash, ds) == JArr(<<JNum(hash), JArr([j \in 1..Len(ds) |-> JNum(ds[j])])>>)
Text(kk, ww, ids, idx) ==
    JObj([k |-> JNum(kk), w |-> JNum(ww), index |-> JArr(idx), identifiers |-> JArr(ids)])
Texts ==
    { Text(1, 1, <<NamePair("a", 0), NamePair("b", 1)>>,
           <<Entry(1, <<0, 1>>), Entry(1, <<1>>), Entry(2, <<0>>)>>),
      Text(1, 2, <<>>, <<Entry(1, <<0>>)>>),
      Text(2, 1, <<NamePair("a", 0)>>, <<Entry(1, <<>>)>>),
      Text(1, 1, <<NamePair("a", 0), NamePair("b", 0)>>,
           <<Entry(2, <<0>>), Entry(65537, <<65536, 1>>)>>) }

\* an object constructed by Index(serialization) from one of them
InitLoaded ==
    /\ \E text \in Texts :
          /\ accepted(text)
          /\ snapshot = text
          /\ LET S == IndexLoad(text)
             IN  /\ identifiers = S.identifiers /\ names = S.names
                 /\ groups = S.groups /\ index = S.index
                 /\ k = S.k /\ w = S.w
    /\ lastOp = "Index(serialization)"
    /\ ret = Void
    /\ origin = [S |-> IndexNew(0, 0), added |-> {}, onlyAdds |-> FALSE, order |-> <<>>]
    /\ added = {}
    /\ onlyAdds = FALSE
    /\ adds = 0
    /\ order = <<>>
    /\ NoWinnow
    /\ NoRolling

SpecSnapshot == (Init \/ InitLoaded) /\ [][NextSnapshot]_vars

\* texts that are not snapshots: no object, a field missing, a field of
\* another kind
BadTexts ==
    LET ids == JArr(<<NamePair("a", 0)>>)
        idx == JArr(<<Entry(1, <<0>>)>>)
    IN  << JArr(<<>>), JNum(1), JNull, JStr("k"),
          JObj([w |-> JNum(1), index |-> idx, identifiers |-> ids]),
          JObj([k |-> JNum(1), index |-> idx, identifiers |-> ids]),
          JObj([k |-> JNum(1), w |-> JNum(1), identifiers |-> ids]),
          JObj([k |-> JNum(1), w |-> JNum(1), index |-> idx]),
          JObj([k |-> JNum(1)]),
          JObj([k |-> JStr("1"), w |-> JNum(1), index |-> idx, identifiers |-> ids]),
          JObj([k |-> JNull, w |-> JNum(1), index |-> idx, identifiers |-> ids]),
          JObj([k |-> JNum(1), w |-> JArr(<<JNum(1)>>), index |-> idx, identifiers |-> ids]),
          JObj([k |-> JNum(1), w |-> JStr("w"), index |-> idx, identifiers |-> ids]),
          JObj([k |-> JNum(1), w |-> JNum(1), index |-> idx, identifiers |-> JNull]),
          JObj([k |-> JNum(1), w |-> JNum(1), index |-> idx, identifiers |-> JStr("a")]),
          JObj([k |-> JNum(1), w |-> JNum(1), index |-> idx, identifiers |-> JNum(0)]),
          JObj([k |-> JNum(1), w |-> JNum(1), index |-> idx, identifiers |-> JObj([a |-> JNum(0)])]),
          JObj([k |-> JNum(1), w |-> JNum(1), index |-> JNull, identifiers |-> ids]),
          JObj([k |-> JNum(1), w |-> JNum(1), index |-> JNum(1), identifiers |-> ids]),
          JObj([k |-> JNum(1), w |-> JNum(1), index |-> JObj([a |-> JNum(0)]), identifiers |-> ids]) >>

\* a caller holding an empty index and a text to load
InitText ==
    /\ k \in 1..MaxK
    /\ w \in 1..MaxW
    /\ identifiers = <<>> /\ names = <<>> /\ groups = <<>> /\ index = <<>>
    /\ lastOp = "Index(k, w)"
    /\ ret = Void
    /\ origin = [S |-> IndexNew(0, 0), added |-> {}, onlyAdds |-> FALSE, order |-> <<>>]
    /\ \/ snapshot \in Texts
       \/ \E j \in DOMAIN BadTexts : snapshot = BadTexts[j]
    /\ added = {}
    /\ onlyAdds = TRUE
    /\ adds = 0
    /\ order = <<>>
    /\ NoWinnow
    /\ NoRolling

NextLoad ==
    \/ Serialize
    \/ Deserialize

SpecLoad == InitText /\ [][NextLoad]_vars

\* addToGroup calls on an object constructed empty, those that tokenize
\* fails included
NextAdds ==
    \/ \E groupName \in Names, tokens \in TokenSeqs : AddToGroup(groupName, tokens)
    \/ \E groupName \in Names : AddToGroupThrows(groupName)

SpecAdds == Init /\ [][NextAdds]_vars

\* addToGroup and getPair calls
NextPairs ==
    \/ \E groupName \in Names, tokens \in TokenSeqs : AddToGroup(groupName, tokens)
    \/ \E a \in Names, b \in Names : GetPair(a, b)

SpecPairs == Init /\ [][NextPairs]_vars

\* addToGroup and matchTokens calls
NextMatch ==
    \/ \E groupName \in Names, tokens \in TokenSeqs : AddToGroup(groupName, tokens)
    \/ \E tokens \in TokenSeqs : MatchTokens(tokens)

SpecMatch == Init /\ [][NextMatch]_vars

----------------------------------------------------------------------------
(* Claims about the index *)

(* C1: Index consistency. In every state reached by addToGroup calls and   *)
(* in every state built by Index(serialization), id d is in index[F] if    *)
(* and only if F is in groups[d].                                          *)
IndexConsistency ==
    /\ \A F \in DOMAIN index : \A d \in index[F] : d \in DOMAIN groups /\ F \in groups[d]
    /\ \A d \in DOMAIN groups : \A F \in groups[d] : F \in DOMAIN index /\ d \in index[F]

\* an object built from a snapshot in which two documents share a hash and
\* one of them has a hash of its own
IndexConsistencyWitness ==
    /\ lastOp = "Index(serialization)"
    /\ ret.kind = "void"
    /\ \E F \in DOMAIN index : Cardinality(index[F]) >= 2
    /\ \E F \in DOMAIN index : Cardinality(index[F]) = 1

(* C2: getPair(a, b) fails with a NotFound error whenever a or b was never *)
(* registered by addToGroup; it returns no result computed from a          *)
(* defaulted id.                                                           *)
GetPairNotFound ==
    (lastOp = "getPair" /\ ~({ret.val.left, ret.val.right} \subseteq added)) =>
        ret.kind = "throw"

(* C3: getPair, matchTokens and serialize are read-only: whatever their    *)
(* arguments, identifiers, names, groups and index are the same after the  *)
(* call as before it.                                                      *)
ReadOnlyCalls ==
    [][lastOp' \in {"getPair", "matchTokens", "serialize"} =>
          UNCHANGED <<identifiers, names, groups, index>>]_vars

(* C4: Name/id bijection. In every state reached by addToGroup, getPair,   *)
(* matchTokens and serialize calls, identifiers is injective and names is  *)
(* its inverse: identifiers[n] = d if and only if names[d] = n.            *)
NameIdBijection ==
    /\ \A n1 \in DOMAIN identifiers, n2 \in DOMAIN identifiers :
          identifiers[n1] = identifiers[n2] => n1 = n2
    /\ \A n \in DOMAIN identifiers :
          identifiers[n] \in DOMAIN names /\ names[identifiers[n]] = n
    /\ \A d \in DOMAIN names :
          names[d] \in DOMAIN identifiers /\ identifiers[names[d]] = d

\* the number of elements of the vector `pairs` whose right name is n
EntriesFor(pairs, n) ==
    LET ps == {p \in DOMAIN pairs : p.right = n}
    IN  IF ps = {} THEN 0
        ELSE LET RECURSIVE Sum(_)
                 Sum(T) == IF T = {} THEN 0
                           ELSE LET p == CHOOSE q \in T : TRUE
                                IN  pairs[p] + Sum(T \ {p})
             IN  Sum(ps)

(* C5: matchTokens completeness. In every reachable state matchTokens      *)
(* returns exactly one entry for each name registered through addToGroup,  *)
(* no entry for anything else, and a document sharing no fingerprint with  *)
(* the input has covered = 0.                                              *)
MatchCompleteness ==
    [][\A tokens \in TokenSeqs :
          MatchTokens(tokens) =>
             /\ ret'.kind = "pairs"
             /\ \A n \in added : EntriesFor(ret'.val, n) = 1
             /\ \A p \in DOMAIN ret'.val : p.right \in added
             /\ \A p \in DOMAIN ret'.val :
                   (p.right \in DOMAIN identifiers
                    /\ GetOr(groups, identifiers[p.right], {})
                          \cap Range(fingerprints(Self, tokens)) = {})
                   => p.covered = 0]_vars

(* C6: matchTokens never fails because of registrations. In every state    *)
(* reached by addToGroup, getPair and matchTokens calls, matchTokens       *)
(* returns a result and raises no error while resolving an id to a name.   *)
MatchNeverThrows ==
    lastOp = "matchTokens" => ret.kind = "pairs"

SameResult(x, y) == x.kind = y.kind /\ x.val = y.val

(* C10: Snapshot round-trip. For every object reached by addToGroup calls, *)
(* the object built from its serialize() text has the same k and w, the    *)
(* same getPair result for every pair of registered names and the same     *)
(* matchTokens entries for every token sequence, documents without         *)
(* fingerprints included.                                                  *)
SnapshotRoundTrip ==
    (lastOp = "Index(serialization)" /\ origin.onlyAdds) =>
        /\ ret.kind = "void"
        /\ k = origin.S.k
        /\ w = origin.S.w
        /\ \A a \in origin.added, b \in origin.added :
              getPair(Self, a, b).ret = getPair(origin.S, a, b).ret
        /\ \A tokens \in TokenSeqs :
              SameResult(matchTokens(Self, tokens), matchTokens(origin.S, tokens))

\* a round trip of an object holding a document without fingerprints next
\* to one with fingerprints
SnapshotRoundTripWitness ==
    /\ lastOp = "Index(serialization)"
    /\ origin.onlyAdds
    /\ ret.kind = "void"
    /\ Cardinality(DOMAIN identifiers) >= 2
    /\ \E n \in DOMAIN identifiers : identifiers[n] \notin DOMAIN groups
    /\ \E n \in DOMAIN identifiers : identifiers[n] \in DOMAIN groups

----------------------------------------------------------------------------
(* The winnowing loop as a process: one step per iteration *)

\* the golden sequence of the specification's test, next to all short inputs
Golden == <<5, 3, 3, 7, 1, 1, 1, 9>>

NoIndex ==
    /\ identifiers = <<>> /\ names = <<>> /\ groups = <<>> /\ index = <<>>
    /\ k = 1 /\ lastOp = "Index(k, w)" /\ ret = Void /\ origin = NoOrigin
    /\ snapshot = NoText /\ added = {} /\ onlyAdds = TRUE /\ adds = 0
    /\ order = <<>>

WinnowInit ==
    /\ NoIndex
    /\ w \in 1..MaxWinnowW
    /\ hashes \in SeqsUpTo(0..MaxHashVal, MaxHashes) \cup {Golden}
    /\ it = 0
    /\ h = winnowStart(w).h
    /\ r = 0
    /\ min = 0
    /\ filtered = <<>>
    /\ NoRolling

WinnowLoop ==
    /\ it < Len(hashes)
    /\ LET st == winnowIter([h |-> h, r |-> r, min |-> min, filtered |-> filtered], w, hashes[it + 1])
       IN  /\ h' = st.h
           /\ r' = st.r
           /\ min' = st.min
           /\ filtered' = st.filtered
    /\ it' = it + 1
    /\ UNCHANGED <<hashes>>
    /\ UNCHANGED <<idxVars, rhVars>>

WinnowNext == WinnowLoop

SpecWinnow == WinnowInit /\ [][WinnowNext]_vars

WinnowReturned == it = Len(hashes)

(* C7: Winnow coverage. When winnowFilter has returned on an input of at   *)
(* least w hashes (w >= 1), every run of w consecutive input hashes holds  *)
(* at least one value that is in the returned sequence.                    *)
WinnowCoverage ==
    (WinnowReturned /\ Len(hashes) >= w) =>
        \A s \in 1..(Len(hashes) - w + 1) :
            \E j \in s..(s + w - 1) : hashes[j] \in Range(filtered)

\* a run on more than w hashes, w >= 2, where some hash was not selected and
\* the incremental branch did select one
WinnowCoverageWitness ==
    /\ WinnowReturned
    /\ w >= 2
    /\ Len(hashes) > w
    /\ Len(filtered) < Len(hashes)
    /\ \E j \in 1..Len(hashes) : hashes[j] \notin Range(filtered)
    /\ Len(filtered) >= 2

(* C8: Winnow selection rule. On an iteration whose write cursor differs   *)
(* from min, a fingerprint is recorded (and min moved to r) exactly when   *)
(* the new value is strictly smaller than h[min]; and <<5,3,3,7,1,1,1,9>>  *)
(* with w = 3 yields <<5,3,1,1>>.                                          *)
WinnowSelectionRule ==
    /\ [][(it' = it + 1 /\ r' # min) =>
            /\ (Len(filtered') = Len(filtered) + 1) <=> (hashes[it'] < h[min])
            /\ (Len(filtered') = Len(filtered) + 1) => (min' = r' /\ filtered' = Append(filtered, hashes[it']))
            /\ (Len(filtered') # Len(filtered) + 1) => (min' = min /\ filtered' = filtered)]_vars
    /\ []((WinnowReturned /\ hashes = Golden /\ w = 3) => filtered = <<5, 3, 1, 1>>)

(* C9: Winnow on short input. For w > 1 and a non-empty input of fewer     *)
(* than w hashes, the returned sequence is not empty and holds the minimum *)
(* of the input.                                                           *)
WinnowShortInput ==
    (WinnowReturned /\ w > 1 /\ Len(hashes) >= 1 /\ Len(hashes) < w) =>
        /\ filtered # <<>>
        /\ \E j \in 1..Len(hashes) :
              /\ \A l \in 1..Len(hashes) : hashes[j] <= hashes[l]
              /\ hashes[j] \in Range(filtered)

----------------------------------------------------------------------------
(* A RollingHash object as a process: one step per call of operator() *)

MaxRollK == 3
MaxFeed == 4

\* token codes (TokenizedFile holds uint16_t): the ends of the range, a
\* small code and one above 8 bits
HashTokens == {0, 1, 256, 65535}

HashInit ==
    /\ NoIndex
    /\ w = 1
    /\ NoWinnow
    /\ \E kk \in 1..MaxRollK : rolling = RollingHashNew(kk)
    /\ feed = <<>>
    /\ out = <<>>

HashPush(tok) ==
    /\ Len(feed) < MaxFeed
    /\ rolling' = RollingHashPush(rolling, tok)
    /\ feed' = Append(feed, tok)
    /\ out' = Append(out, rolling'.hash)
    /\ UNCHANGED <<idxVars, winVars>>

HashNext == \E tok \in HashTokens : HashPush(tok)

SpecHash == HashInit /\ [][HashNext]_vars

\* base^j mod p by repeated multiplication
RECURSIVE Power(_)
Power(j) == IF j = 0 THEN 1 ELSE MulMod(base, Power(j - 1), mod)

\* t_n of the pushed sequence, 0 before the first push
Pushed(tokens, n) == IF n >= 1 THEN tokens[n] ELSE 0

\* (sum over j in lo..hi of base^j * t_(n-j)) mod p
RECURSIVE WindowSum(_, _, _, _)
WindowSum(tokens, n, lo, hi) ==
    IF lo > hi THEN 0
    ELSE (MulMod(Power(lo), Pushed(tokens, n - lo), mod) + WindowSum(tokens, n, lo + 1, hi)) % mod

(* C11: Rolling hash value. For a window length k >= 1 and token codes     *)
(* below 2^16, the n-th call of operator() returns                         *)
(* (sum_{j=0..k-1} base^j * t_(n-j)) mod p, with t_i = 0 for i <= 0.       *)
RollingHashValue ==
    \A n \in 1..Len(out) : out[n] = WindowSum(feed, n, 0, rolling.k - 1)

\* more pushes than the window is long, k >= 2, and a non-zero token has
\* left the window
RollingHashValueWitness ==
    /\ rolling.k >= 2
    /\ Len(out) > rolling.k
    /\ feed[1] = 65535
    /\ feed[Len(feed)] # 0

(* C12: Rolling-hash sensitivity. Two token sequences of the same length   *)
(* that differ in exactly one position i have different hashes at every    *)
(* output position n with i <= n < i + k.                                  *)
RollingHashSensitivity ==
    \A i \in 1..Len(feed) : \A v \in HashTokens \ {feed[i]} :
        LET other == RollingHashIterator(rolling.k, [feed EXCEPT ![i] = v])
        IN  \A n \in i..Len(feed) : n < i + rolling.k => other[n] # out[n]

\* a sequence longer than its window (k >= 2): changing its first token
\* changes the hashes of the window and no hash after it
RollingHashSensitivityWitness ==
    /\ rolling.k >= 2
    /\ Len(feed) > rolling.k
    /\ \E v \in HashTokens \ {feed[1]} :
          LET other == RollingHashIterator(rolling.k, [feed EXCEPT ![1] = v])
          IN  /\ \A n \in 1..rolling.k : other[n] # out[n]
              /\ \A n \in (rolling.k + 1)..Len(feed) : other[n] = out[n]

\* uint64_t arithmetic of operator(), exact: a value as digits to the radix
\* 2^15, lowest first (TLC's integers end at 2^31 - 1)
\* carries taken through four digits; the fifth, topmost digit takes the rest
Carry(d) ==
    LET s1 == d[1]
        s2 == d[2] + (s1 \div 32768)
        s3 == d[3] + (s2 \div 32768)
        s4 == d[4] + (s3 \div 32768)
    IN  <<s1 % 32768, s2 % 32768, s3 % 32768, s4 % 32768, s4 \div 32768>>

\* a * b for a, b < 2^30
WideMul(a, b) ==
    LET a0 == a % 32768
        a1 == a \div 32768
        b0 == b % 32768
        b1 == b \div 32768
    IN  Carry(<<a0 * b0, a1 * b0 + a0 * b1, a1 * b1, 0>>)

\* base * hash + tok + max_base * memory[i], before % mod
intermediate(rh, tok) ==
    LET x == WideMul(base, rh.hash)
        y == WideMul(rh.max_base, rh.memory[rh.i])
        t == WideMul(tok, 1)
        sum == Carry(<<x[1] + y[1] + t[1], x[2] + y[2] + t[2],
                       x[3] + y[3] + t[3], x[4] + y[4] + t[4]>>)
    IN  [sum EXCEPT ![5] = @ + x[5] + y[5] + t[5]]

\* the value is at most 2^64 - 1 = 16 * 2^60 - 1
FitsUint64(d) == Len(d) = 5 /\ d[5] < 16

\* d % m
RECURSIVE WideMod(_, _, _)
WideMod(d, j, m) ==
    IF j > Len(d) THEN 0
    ELSE (MulMod(32768, WideMod(d, j + 1, m), m) + d[j]) % m

(* C20: Rolling-hash arithmetic stays in range. After every call the       *)
(* stored hash is in [0, p), max_base is in [1, p), and for every token    *)
(* below 2^16 the value base * hash + tok + max_base * memory[i] of the    *)
(* next call is at most 2^64 - 1, so that the hash it stores is that       *)
(* value modulo p.                                                         *)
ArithmeticInRange ==
    /\ rolling.hash \in 0..(mod - 1)
    /\ rolling.max_base \in 1..(mod - 1)
    /\ \A tok \in HashTokens :
          /\ FitsUint64(intermediate(rolling, tok))
          /\ WideMod(intermediate(rolling, tok), 1, mod) = RollingHashPush(rolling, tok).hash

\* a full window whose oldest token is 65535 and a next value of 2^45 or more
ArithmeticInRangeWitness ==
    /\ Len(feed) >= rolling.k
    /\ rolling.memory[rolling.i] = 65535
    /\ \E tok \in HashTokens : intermediate(rolling, tok)[4] >= 1

----------------------------------------------------------------------------
(* Claims about addToGroup *)

(* C13: Id assignment. On an index constructed empty and after any         *)
(* sequence of addToGroup calls, the n-th distinct name passed has id      *)
(* n - 1, no other name has an id, and names maps each id back; a call     *)
(* with a name passed before therefore finds that name's id and creates    *)
(* none.                                                                   *)
IdAssignment ==
    /\ DOMAIN identifiers = Range(order)
    /\ \A n \in 1..Len(order) : identifiers[order[n]] = n - 1
    /\ DOMAIN names = {n - 1 : n \in 1..Len(order)}
    /\ \A n \in 1..Len(order) : names[n - 1] = order[n]

\* two names added one after the other, the second holding fingerprints
IdAssignmentWitness ==
    /\ lastOp = "addToGroup"
    /\ ret.kind = "void"
    /\ Len(order) = 2
    /\ identifiers[order[2]] = 1
    /\ 1 \in DOMAIN groups

(* C14: No partial success with respect to tokenization. An addToGroup     *)
(* call whose tokenization fails leaves identifiers, names, groups and     *)
(* index as they were before the call.                                     *)
NoPartialAdd ==
    [][(lastOp' = "addToGroup" /\ ret'.kind = "throw") =>
          UNCHANGED <<identifiers, names, groups, index>>]_vars

(* C15: Re-adding merges. In every state reached by addToGroup calls, a    *)
(* call addToGroup(groupName, tokens) leaves the forward set of groupName  *)
(* equal to what it was before together with the fingerprints of tokens,   *)
(* and removes no fingerprint from any forward set and no id from any      *)
(* entry of the inverted map.                                              *)
ReAddMerges ==
    \A groupName \in Names, tokens \in TokenSeqs :
        LET after == addToGroup(Self, groupName, tokens)
            d == after.identifiers[groupName]
        IN  /\ GetOr(after.groups, d, {}) =
                  GetOr(groups, d, {}) \cup Range(fingerprints(Self, tokens))
            /\ \A x \in DOMAIN groups : x \in DOMAIN after.groups /\ groups[x] \subseteq after.groups[x]
            /\ \A F \in DOMAIN index : F \in DOMAIN after.index /\ index[F] \subseteq after.index[F]

\* one name added twice, left with more fingerprints than one input of
\* MaxTokens tokens has
ReAddMergesWitness ==
    /\ lastOp = "addToGroup"
    /\ ret.kind = "void"
    /\ adds = 2
    /\ Len(order) = 1
    /\ 0 \in DOMAIN groups
    /\ Cardinality(groups[0]) > MaxTokens

----------------------------------------------------------------------------
(* Claims about getPair and matchTokens *)

(* C16: Pairwise symmetry and bound. In every reachable state and for all  *)
(* names a and b registered by addToGroup, getPair(a, b) and getPair(b, a) *)
(* return the same covered, leftTotal of the one is rightTotal of the      *)
(* other, and covered is at most leftTotal and at most rightTotal.         *)
PairSymmetry ==
    \A a \in added, b \in added :
        LET ab == getPair(Self, a, b).ret
            ba == getPair(Self, b, a).ret
        IN  /\ ab.covered = ba.covered
            /\ ab.leftTotal = ba.rightTotal
            /\ ab.covered <= ab.leftTotal
            /\ ab.covered <= ab.rightTotal

\* getPair has returned for two registered documents of different sizes
\* that share a fingerprint
PairSymmetryWitness ==
    /\ lastOp = "getPair"
    /\ {ret.val.left, ret.val.right} \subseteq added
    /\ ret.val.left # ret.val.right
    /\ ret.val.covered >= 1
    /\ ret.val.leftTotal # ret.val.rightTotal
    /\ ret.val = getPair(Self, ret.val.left, ret.val.right).ret

\* groups[identifiers[n]], empty when there is none
ForwardSet(S, n) ==
    IF n \in DOMAIN S.identifiers THEN GetOr(S.groups, S.identifiers[n], {}) ELSE {}

(* C17: matchTokens counts. matchTokens is const, so its results are those *)
(* it returns on the objects left by the constructor and by addToGroup:    *)
(* in every entry of each of them, leftTotal is the length of the winnow   *)
(* output for the input, rightTotal is the size of the forward set of the  *)
(* entry's document (0 when it has no fingerprints), and covered is the    *)
(* number of positions of the winnow output, repeats included, whose value *)
(* is in that forward set. A result that has been returned has one         *)
(* leftTotal in all entries, and in each entry rightTotal is the size of   *)
(* the document's forward set and covered is at most leftTotal.            *)
MatchCounts ==
    /\ lastOp # "matchTokens" =>
          \A tokens \in TokenSeqs :
              LET res == matchTokens(Self, tokens)
                  fps == fingerprints(Self, tokens)
              IN  res.kind = "pairs" =>
                    \A p \in DOMAIN res.val :
                        /\ p.leftTotal = Len(fps)
                        /\ p.rightTotal = Cardinality(ForwardSet(Self, p.right))
                        /\ p.covered = Cardinality({j \in 1..Len(fps) : fps[j] \in ForwardSet(Self, p.right)})
    /\ (lastOp = "matchTokens" /\ ret.kind = "pairs") =>
          \A p \in DOMAIN ret.val :
              /\ \A q \in DOMAIN ret.val : q.leftTotal = p.leftTotal
              /\ p.rightTotal = Cardinality(ForwardSet(Self, p.right))
              /\ p.covered <= p.leftTotal

\* matchTokens has returned an entry whose covered counts a repeated value
\* (covered > rightTotal) next to one for a document without fingerprints
MatchCountsWitness ==
    /\ lastOp = "matchTokens"
    /\ ret.kind = "pairs"
    /\ \E p \in DOMAIN ret.val : p.covered > p.rightTotal /\ p.covered = p.leftTotal
    /\ \E p \in DOMAIN ret.val : p.rightTotal = 0 /\ p.covered = 0

(* C19: Self-match. On any index, after addToGroup(groupName, tokens) the  *)
(* result of matchTokens(tokens) has an entry for groupName with covered   *)
(* equal to leftTotal, and covered is at most leftTotal in every entry.    *)
SelfMatch ==
    \A groupName \in Names, tokens \in TokenSeqs :
        LET res == matchTokens(addToGroup(Self, groupName, tokens), tokens)
        IN  /\ res.kind = "pairs"
            /\ \E p \in DOMAIN res.val : p.right = groupName /\ p.covered = p.leftTotal
            /\ \A p \in DOMAIN res.val : p.covered <= p.leftTotal

----------------------------------------------------------------------------
(* Claims about Index(serialization) *)

\* a top-level field is absent or has the wrong shape
FieldMissing(text, f) == text.t # "object" \/ f \notin DOMAIN text.v
Malformed(text) ==
    \/ \E f \in {"k", "w", "identifiers", "index"} : FieldMissing(text, f)
    \/ text.v.k.t # "number"
    \/ text.v.w.t # "number"
    \/ text.v.identifiers.t # "array"
    \/ text.v.index.t # "array"

(* C18: Snapshot rejection. Index(serialization) throws, and the caller    *)
(* gets no index from it, for every text in which k, w, identifiers or     *)
(* index is absent, k or w is not an integer, or identifiers or index is   *)
(* not a list.                                                             *)
SnapshotRejection ==
    [][(lastOp' = "Index(serialization)" /\ Malformed(snapshot)) =>
          /\ ret'.kind = "throw"
          /\ UNCHANGED <<identifiers, names, groups, index, k, w>>]_vars

\* a load was refused for a text that has k and w and whose identifiers
\* are not a list
SnapshotRejectionWitness ==
    /\ lastOp = "Index(serialization)"
    /\ ret.kind = "throw"
    /\ snapshot.t = "object"
    /\ {"k", "w", "identifiers", "index"} \subseteq DOMAIN snapshot.v
    /\ snapshot.v.k.t = "number"
    /\ snapshot.v.w.t = "number"
    /\ snapshot.v.identifiers.t # "array"


====
